---- MODULE Spec2Model ----
(***************************************************************************)
(* Pong kernel: the game state machine of kernel/src/main.rs, driven by   *)
(* the timer callback tick() and the keyboard callback key(), together    *)
(* with the part of the renderer state (kernel/src/screen.rs) those       *)
(* callbacks read and write.                                              *)
(***************************************************************************)
EXTENDS Integers, Sequences, FiniteSets, TLC

VARIABLES
    width, height,              \* FrameBufferInfo.width / .height (immutable)
    rows,                       \* pixel rows the framebuffer slice holds (immutable)
    BALL_X, BALL_Y,             \* static mut usize
    BALL_SPEED_X, BALL_SPEED_Y, \* static mut isize
    PADDLE_LEFT, PADDLE_RIGHT,  \* static mut usize
    LEFT_SCORE, RIGHT_SCORE,    \* AtomicI32
    GAME_STATE,                 \* AtomicI32, 0: ongoing, 1: ended
    previous_paddle_left_pos,   \* ScreenWriter field
    previous_paddle_right_pos,  \* ScreenWriter field
    message,                    \* win message on screen: "none", "Left", "Right"
    lastScorer,                 \* the side that scored last: "none", "Left", "Right"
    started,                    \* the startup callback has run
    halted,                     \* a callback has panicked: nothing runs any more
    event,                      \* the callback that ran last: its argument and
                                \* the GAME_STATE it found
    keysLeft,                   \* keyboard interrupts still to be delivered
    HEAP_START,                 \* static mut usize: the bump pointer
    heapBase,                   \* the offset init_heap was given, -1 before it
    blocks,                     \* the blocks alloc has returned, in order
    serialLog,                  \* the dealloc records written to serial()
    drawn,                      \* what the last handler wrote to the framebuffer
    pixel_format,               \* FrameBufferInfo.pixel_format
    bytes_per_pixel,            \* FrameBufferInfo.bytes_per_pixel (immutable)
    written,                    \* the bytes the last direct draw_pixel call stored
    drawsLeft                   \* direct draw_pixel calls still to be made

vars == <<width, height, rows, BALL_X, BALL_Y, BALL_SPEED_X, BALL_SPEED_Y,
          PADDLE_LEFT, PADDLE_RIGHT, LEFT_SCORE, RIGHT_SCORE, GAME_STATE,
          previous_paddle_left_pos, previous_paddle_right_pos, message,
          lastScorer, started, halted, event, keysLeft, HEAP_START,
          heapBase, blocks, serialLog, drawn, pixel_format, bytes_per_pixel,
          written, drawsLeft>>

\* The state of the arena allocator.
heap == <<HEAP_START, heapBase, blocks, serialLog>>

\* What the game callbacks leave alone of the direct draw_pixel calls.
direct == <<bytes_per_pixel, written, drawsLeft>>

\* The fields the specification calls GameState.
game == <<BALL_X, BALL_Y, BALL_SPEED_X, BALL_SPEED_Y, PADDLE_LEFT,
          PADDLE_RIGHT, LEFT_SCORE, RIGHT_SCORE, GAME_STATE>>

(***************************************************************************)
(* Bounds and inputs                                                       *)
(***************************************************************************)
\* Number of keyboard interrupts delivered in one run.
MaxKeys == 3

\* Number of blocks allocated in one run.
MaxAllocs == 3

\* Number of direct draw_pixel calls in one run, and the channel values and
\* pixel sizes they are made with.
MaxDraws == 3
Channels == {0, 128, 255}
PixelSizes == {1, 3, 4}

\* The pixel formats of the boot descriptor: two supported ones and two of
\* the others.
PixelFormats == {"Rgb", "Bgr", "U8", "Unknown"}

\* The formats the game is booted with.  Bgr differs from Rgb only in the
\* order of the bytes, which the rectangles in drawn do not record.
BootFormats == {"Rgb", "U8"}

\* Offsets init_heap may be given, and the layouts alloc may be asked for.
HeapOffsets == {4096, 1048576}
LayoutSizes == {1, 3, 8, 51200, 102401}
LayoutAligns == {1, 8}

\* Framebuffers the boot descriptor may report: width, height, and the pixel
\* rows the buffer slice holds (its byte length over the bytes of one row),
\* which is the height or, with spare video memory behind the visible rows,
\* more.
Geometries == {<<640, 480, 480>>, <<320, 200, 200>>, <<800, 600, 600>>,
               <<640, 480, 768>>}

\* The callbacks the dispatch runtime invokes, as recorded in event.
TickEvent(phase) == [kind |-> "tick", phase |-> phase]
KeyEvent(k, phase) == [kind |-> "key", key |-> k, phase |-> phase]

\* DecodedKey values delivered by the scancode decoder.
Unicode(c) == [tag |-> "Unicode", val |-> c]
RawKey(k) == [tag |-> "RawKey", val |-> k]
Keys == {Unicode("w"), Unicode("W"), Unicode("s"), Unicode("S"),
         Unicode("r"), Unicode("R"), RawKey("ArrowUp"), RawKey("ArrowDown"),
         RawKey("ArrowLeft")}

(***************************************************************************)
(* Program constants                                                       *)
(***************************************************************************)
PADDLE_WIDTH == 10
PADDLE_HEIGHT == 60
BALL_SIZE == 8
PADDLE_STEP == 25
PADDLE_MARGIN == 75
LOOKAHEAD == 15
WIN_SCORE == 3
SPEED_X == 5
SPEED_Y == 3
INIT_PADDLE_LEFT == 100
INIT_PADDLE_RIGHT == 100
INIT_BALL_X == 200
INIT_BALL_Y == 150
RESET_PADDLE_LEFT == 100
RESET_PADDLE_RIGHT == 500
HEAP_SIZE == 102400
PADDLE_LEFT_X == 10
PADDLE_RIGHT_GAP == 10
SCORE_Y == 10
SCORE_SIZE == 30
MID_LINE_WIDTH == 5
MID_LINE_HEIGHT == 10
TOTAL_LINES == 20
CHAR_WIDTH == 8
CHAR_HEIGHT == 16

\* Faulty variant of FetchAddOne: a scoring event counts twice.
FetchAddOne_Twice(x) == x + 2

\* main.rs:171,187  AtomicI32::fetch_add(1) + 1; fetch_add wraps on overflow.
FetchAddOne(x) == IF x = 2147483647 THEN -2147483647 - 1 ELSE x + 1

(***************************************************************************)
(* Helpers of tick()                                                       *)
(***************************************************************************)
\* Faulty variant of OffLeft: the whole ball has to be past the edge.
OffLeft_WholeBall(nx) == nx + BALL_SIZE < 0

\* main.rs:169  the projected ball is off the left edge
OffLeft(nx) == nx < 0

\* Faulty variant of OffRight: the ball's origin is tested against the right
\* edge instead of its far side.
OffRight_Origin(nx, w) == nx > w

\* main.rs:185  the projected ball is off the right edge
OffRight(nx, w) == nx + BALL_SIZE > w

\* main.rs:204  the projected ball is above the top edge
ClampTop(ny) == ny < 0

\* Faulty variant of ClampBottom: the ball's origin is tested against the
\* bottom edge instead of its far side.
ClampBottom_Origin(ny, h) == ny > h

\* main.rs:207  the projected ball is below the bottom edge
ClampBottom(ny, h) == ~ClampTop(ny) /\ ny + BALL_SIZE > h

\* Faulty variant of NextBallY: the top edge does not clamp.
NextBallY_NoTopClamp(ny, h) ==
    IF ClampBottom(ny, h) THEN h - BALL_SIZE ELSE ny

\* main.rs:204-212  the ball's new y
NextBallY(ny, h) ==
    IF ClampTop(ny) THEN 0
    ELSE IF ClampBottom(ny, h) THEN h - BALL_SIZE
    ELSE ny

\* Faulty variant of Bounce: a bounce loses energy.
Bounce_Damped(v) == -(v \div 2)

\* main.rs:206,209,221,229  a bounce negates one velocity component
Bounce(v) == -v

\* main.rs:204-212  the ball's new vertical velocity
NextSpeedY(ny, vy, h) ==
    IF ClampTop(ny) \/ ClampBottom(ny, h) THEN Bounce(vy) ELSE vy

\* main.rs:215-219  right paddle collision, on the projected position
HitRight(nx, ny, vx, pr, w) ==
    /\ vx > 0
    /\ nx + (BALL_SIZE + LOOKAHEAD) >= w - PADDLE_WIDTH
    /\ ny + BALL_SIZE > pr
    /\ ny < pr + PADDLE_HEIGHT

\* main.rs:224-227  left paddle collision, on the projected position
HitLeft(nx, ny, vx, pl) ==
    /\ vx < 0
    /\ nx <= PADDLE_WIDTH + LOOKAHEAD
    /\ ny + BALL_SIZE > pl
    /\ ny < pl + PADDLE_HEIGHT

\* main.rs:215-230  the ball's new horizontal velocity
NextSpeedX(nx, ny, vx, pl, pr, w) ==
    IF HitRight(nx, ny, vx, pr, w) THEN Bounce(vx)
    ELSE IF HitLeft(nx, ny, vx, pl) THEN Bounce(vx)
    ELSE vx

\* Faulty variant of ReachesWin: the threshold is compared with >.
ReachesWin_Strict(score) == score > WIN_SCORE

\* main.rs:182,198  the match ends when the new score reaches the threshold
ReachesWin(score) == score >= WIN_SCORE

\* Faulty variant of Winner: the threshold is compared with >.
Winner_Strict(left) == IF left > WIN_SCORE THEN "Left" ELSE "Right"

\* main.rs:147-151  the side the win message names
Winner(left) == IF left >= WIN_SCORE THEN "Left" ELSE "Right"

\* screen.rs:309-319  the remembered paddle position after draw_pong_game
DrawnPaddle(pos, prev) == IF pos # prev THEN pos ELSE prev

\* screen.rs:133-141  the pixel formats draw_pixel has no colour for
Unsupported(format) == format \notin {"Rgb", "Bgr"}

\* screen.rs:288-294,131-148  draw_pong_pad paints rows pos .. pos+59; the
\* slice index in draw_pixel panics on a row the buffer does not hold, and
\* its match on a pixel format it does not support
PadPanics(pos, prev) ==
    pos # prev /\ (pos + PADDLE_HEIGHT > rows \/ Unsupported(pixel_format))

\* screen.rs:296-322  draw_pong_game with the paddles at pl and pr: the left
\* paddle is redrawn first; a panic leaves the rest undone
DrawPongGame(pl, pr) ==
    LET lp == PadPanics(pl, previous_paddle_left_pos)
        rp == ~lp /\ PadPanics(pr, previous_paddle_right_pos)
    IN  /\ previous_paddle_left_pos' =
              IF lp THEN previous_paddle_left_pos
              ELSE DrawnPaddle(pl, previous_paddle_left_pos)
        /\ previous_paddle_right_pos' =
              IF lp \/ rp THEN previous_paddle_right_pos
              ELSE DrawnPaddle(pr, previous_paddle_right_pos)

(***************************************************************************)
(* What a handler writes to the framebuffer: a sequence of rectangles, in   *)
(* the order of the calls.  "erase" fills with black, "paint" with the      *)
(* colour of the thing, "clear" zeroes the whole buffer.                    *)
(***************************************************************************)
Op(o, what, n, x, y, w, h) ==
    [op |-> o, what |-> what, n |-> n, x |-> x, y |-> y, w |-> w, h |-> h]

\* screen.rs:68-72  clear(): framebuffer.fill(0)
ClearOp == Op("clear", "screen", 0, 0, 0, width, rows)

\* screen.rs:352-358  clear_pong_pad
ErasePad(what, x, y) == Op("erase", what, 0, x, y, PADDLE_WIDTH, PADDLE_HEIGHT)

\* screen.rs:288-294  draw_pong_pad
PaintPad(what, x, y) == Op("paint", what, 0, x, y, PADDLE_WIDTH, PADDLE_HEIGHT)

\* screen.rs:304-305  the columns of the two paddles
PaddleLeftX == PADDLE_LEFT_X
PaddleRightX == width - PADDLE_WIDTH - PADDLE_RIGHT_GAP

\* Faulty variant of PadOps: the paddle is painted without erasing the
\* rectangle at the remembered position.
PadOps_NoErase(what, x, pos, prev) ==
    IF pos # prev THEN <<PaintPad(what, x, pos)>> ELSE <<>>

\* screen.rs:309-319  one paddle of draw_pong_game: nothing when it has not
\* moved, else erase at the remembered position and paint at the current
PadOps(what, x, pos, prev) ==
    IF pos # prev
    THEN <<ErasePad(what, x, prev), PaintPad(what, x, pos)>>
    ELSE <<>>

\* screen.rs:296-322  draw_pong_game with the paddles at pl and pr
PongGameOps(pl, pr) ==
    PadOps("paddle_left", PaddleLeftX, pl, previous_paddle_left_pos)
    \o PadOps("paddle_right", PaddleRightX, pr, previous_paddle_right_pos)

\* screen.rs:336-349  draw_mid_line: 20 dashes in one column, the box from
\* the top of the first dash to the bottom of the last
MidLineOp ==
    Op("paint", "mid_line", 0, (width - MID_LINE_WIDTH) \div 2, 0,
       MID_LINE_WIDTH,
       (TOTAL_LINES - 1) * (height \div TOTAL_LINES) + MID_LINE_HEIGHT)

\* main.rs:126-134, screen.rs:150-269  draw_score: the digits 0..3 are
\* drawn inside the square of side size at (x, y), any other score is not
DigitOps(score, x) ==
    IF score \in 0..3
    THEN <<Op("paint", "digit", score, x, SCORE_Y, SCORE_SIZE, SCORE_SIZE)>>
    ELSE <<>>

\* screen.rs:271-279  clear_score
EraseScore(x) == Op("erase", "digit", 0, x, SCORE_Y, SCORE_SIZE, SCORE_SIZE)

\* main.rs:139-140,172,188  the columns of the two score digits
LeftScoreX == width \div 4
RightScoreX == (3 * width) \div 4

\* screen.rs:360-366  clear_ball: no test against the frame
EraseBall(x, y) == Op("erase", "ball", 0, x, y, BALL_SIZE, BALL_SIZE)

\* screen.rs:329  draw_ball skips the pixels outside the frame
Clip(at, limit) ==
    IF at + BALL_SIZE <= limit THEN BALL_SIZE
    ELSE IF at < limit THEN limit - at
    ELSE 0

\* screen.rs:324-334  draw_ball
PaintBall(x, y) == Op("paint", "ball", 0, x, y, Clip(x, width), Clip(y, height))

\* main.rs:147-151  the two win messages
MessageText(winner) ==
    IF winner = "Left" THEN "Left Player Wins! Press 'r' to restart"
    ELSE "Right Player Wins! Press 'r' to restart"

\* main.rs:152-157  the win message, centred with 8 pixels for a character
MessageOp(winner) ==
    LET text_width == Len(MessageText(winner)) * CHAR_WIDTH
    IN  Op("paint", "message", 0, (width \div 2) - (text_width \div 2),
           height \div 2, text_width, CHAR_HEIGHT)

\* main.rs:136-141  start()
StartOps(pl, pr) ==
    PongGameOps(pl, pr) \o <<MidLineOp>>
    \o DigitOps(0, LeftScoreX) \o DigitOps(0, RightScoreX)

\* screen.rs:131-148,112-129  draw_pixel and write_pixel panic on a pixel
\* format they do not support, before writing, and index the framebuffer
\* slice: a row the buffer does not hold panics.  clear() fills the slice.
Panics(o) ==
    \/ o.y + o.h > rows
    \/ o.op # "clear" /\ Unsupported(pixel_format)

\* The rectangle is written at least in part: the format panic comes before
\* the first byte.
Reached(o) == o.op = "clear" \/ ~Unsupported(pixel_format)

FirstPanic(ops) ==
    IF \E i \in 1..Len(ops) : Panics(ops[i])
    THEN CHOOSE i \in 1..Len(ops) :
             Panics(ops[i]) /\ \A j \in 1..(i - 1) : ~Panics(ops[j])
    ELSE 0

\* A handler that means to write ops: a panic stops it at the write that
\* leaves the buffer or finds the unsupported format; the latter stores Rgb
\* as the format before it panics (screen.rs:137-140).
Draw(ops) ==
    LET p == FirstPanic(ops)
    IN  /\ drawn' = IF p = 0 THEN ops
                    ELSE IF Reached(ops[p]) THEN SubSeq(ops, 1, p)
                    ELSE SubSeq(ops, 1, p - 1)
        /\ halted' = (p # 0)
        /\ pixel_format' = IF p # 0 /\ ~Reached(ops[p]) THEN "Rgb"
                           ELSE pixel_format

(***************************************************************************)
(* Initial state: the statics of main.rs and ScreenWriter::new             *)
(***************************************************************************)
Init ==
    /\ \E g \in Geometries : width = g[1] /\ height = g[2] /\ rows = g[3]
    /\ BALL_X = INIT_BALL_X
    /\ BALL_Y = INIT_BALL_Y
    /\ BALL_SPEED_X = SPEED_X
    /\ BALL_SPEED_Y = SPEED_Y
    /\ PADDLE_LEFT = INIT_PADDLE_LEFT
    /\ PADDLE_RIGHT = INIT_PADDLE_RIGHT
    /\ LEFT_SCORE = 0
    /\ RIGHT_SCORE = 0
    /\ GAME_STATE = 0
    /\ previous_paddle_left_pos = 0
    /\ previous_paddle_right_pos = 0
    /\ message = "none"
    /\ lastScorer = "none"
    /\ started = FALSE
    /\ halted = FALSE
    /\ event = [kind |-> "boot", phase |-> 0]
    /\ keysLeft = MaxKeys
    /\ HEAP_START = 0
    /\ heapBase = -1
    /\ blocks = <<>>
    /\ serialLog = <<>>
    /\ drawn = <<>>
    /\ pixel_format \in BootFormats
    /\ bytes_per_pixel = 4
    /\ written = <<>>
    /\ drawsLeft = MaxDraws

(***************************************************************************)
(* start(): the startup callback                                           *)
(***************************************************************************)
Start ==
    /\ ~started
    /\ started' = TRUE
    /\ DrawPongGame(PADDLE_LEFT, PADDLE_RIGHT)
    /\ Draw(StartOps(PADDLE_LEFT, PADDLE_RIGHT))
    /\ event' = [kind |-> "start", phase |-> GAME_STATE]
    /\ UNCHANGED <<width, height, rows, game, message, lastScorer, keysLeft,
                   heap, direct>>

(***************************************************************************)
(* tick(): the timer callback                                              *)
(***************************************************************************)
\* main.rs:145-159  the match has ended: write the win message and return
TickFinished ==
    /\ GAME_STATE = 1
    /\ message' = Winner(LEFT_SCORE)
    /\ UNCHANGED <<game, lastScorer, previous_paddle_left_pos,
                   previous_paddle_right_pos>>

\* Faulty variant of TickScoreRight: the ball respawns moving toward the
\* side that conceded the point.
TickScoreRight_TowardConceder ==
    /\ GAME_STATE # 1
    /\ OffLeft(BALL_X + BALL_SPEED_X)
    /\ RIGHT_SCORE' = FetchAddOne(RIGHT_SCORE)
    /\ BALL_X' = width \div 2
    /\ BALL_Y' = height \div 2
    /\ BALL_SPEED_X' = -SPEED_X
    /\ BALL_SPEED_Y' = SPEED_Y
    /\ GAME_STATE' = IF ReachesWin(RIGHT_SCORE') THEN 1 ELSE GAME_STATE
    /\ lastScorer' = "Right"
    /\ UNCHANGED <<LEFT_SCORE, PADDLE_LEFT, PADDLE_RIGHT>>

\* main.rs:169-184  the right player scores
TickScoreRight ==
    /\ GAME_STATE # 1
    /\ OffLeft(BALL_X + BALL_SPEED_X)
    /\ RIGHT_SCORE' = FetchAddOne(RIGHT_SCORE)
    /\ BALL_X' = width \div 2
    /\ BALL_Y' = height \div 2
    /\ BALL_SPEED_X' = SPEED_X
    /\ BALL_SPEED_Y' = SPEED_Y
    /\ GAME_STATE' = IF ReachesWin(RIGHT_SCORE') THEN 1 ELSE GAME_STATE
    /\ lastScorer' = "Right"
    /\ UNCHANGED <<LEFT_SCORE, PADDLE_LEFT, PADDLE_RIGHT>>

\* main.rs:185-200  the left player scores
TickScoreLeft ==
    /\ GAME_STATE # 1
    /\ ~OffLeft(BALL_X + BALL_SPEED_X)
    /\ OffRight(BALL_X + BALL_SPEED_X, width)
    /\ LEFT_SCORE' = FetchAddOne(LEFT_SCORE)
    /\ BALL_X' = width \div 2
    /\ BALL_Y' = height \div 2
    /\ BALL_SPEED_X' = -SPEED_X
    /\ BALL_SPEED_Y' = -SPEED_Y
    /\ GAME_STATE' = IF ReachesWin(LEFT_SCORE') THEN 1 ELSE GAME_STATE
    /\ lastScorer' = "Left"
    /\ UNCHANGED <<RIGHT_SCORE, PADDLE_LEFT, PADDLE_RIGHT>>

\* main.rs:201-231  the ball moves, bouncing off walls and paddles
TickMove ==
    LET nx == BALL_X + BALL_SPEED_X
        ny == BALL_Y + BALL_SPEED_Y
    IN  /\ GAME_STATE # 1
        /\ ~OffLeft(nx)
        /\ ~OffRight(nx, width)
        /\ BALL_X' = nx
        /\ BALL_Y' = NextBallY(ny, height)
        /\ BALL_SPEED_Y' = NextSpeedY(ny, BALL_SPEED_Y, height)
        /\ BALL_SPEED_X' = NextSpeedX(nx, ny, BALL_SPEED_X, PADDLE_LEFT,
                                      PADDLE_RIGHT, width)
        /\ UNCHANGED <<LEFT_SCORE, RIGHT_SCORE, GAME_STATE, PADDLE_LEFT,
                       PADDLE_RIGHT, lastScorer>>

\* main.rs:161-238  a tick while the match is ongoing, with its redraw
TickPlaying ==
    /\ \/ TickScoreRight
       \/ TickScoreLeft
       \/ TickMove
    /\ DrawPongGame(PADDLE_LEFT, PADDLE_RIGHT)
    /\ UNCHANGED message

\* main.rs:145-238  what tick() writes: the message when the match has
\* ended; else the old ball is erased, a point repaints the scorer's digit,
\* then the ball, the paddles and the mid line are drawn
TickOps ==
    LET nx == BALL_X + BALL_SPEED_X
    IN  IF GAME_STATE = 1 THEN <<MessageOp(Winner(LEFT_SCORE))>>
        ELSE <<EraseBall(BALL_X, BALL_Y)>>
             \o (IF OffLeft(nx)
                 THEN <<EraseScore(RightScoreX)>>
                      \o DigitOps(RIGHT_SCORE', RightScoreX)
                 ELSE IF OffRight(nx, width)
                 THEN <<EraseScore(LeftScoreX)>>
                      \o DigitOps(LEFT_SCORE', LeftScoreX)
                 ELSE <<>>)
             \o <<PaintBall(BALL_X', BALL_Y')>>
             \o PongGameOps(PADDLE_LEFT, PADDLE_RIGHT)
             \o <<MidLineOp>>

Tick ==
    /\ started
    /\ ~halted
    /\ \/ TickFinished
       \/ TickPlaying
    /\ Draw(TickOps)
    /\ event' = TickEvent(GAME_STATE)
    /\ UNCHANGED <<width, height, rows, started, keysLeft, heap, direct>>

(***************************************************************************)
(* key(): the keyboard callback                                            *)
(***************************************************************************)
\* main.rs:264-266  W / w
PaddleUp(p) == IF p > PADDLE_STEP THEN p - PADDLE_STEP ELSE p

\* main.rs:269-271  S / s
PaddleDown(p, h) == IF p + PADDLE_MARGIN < h THEN p + PADDLE_STEP ELSE p

\* Faulty variant of KeyPaddleLeft: ArrowUp moves the left paddle as well.
KeyPaddleLeft_AnyUp(k, p, h) ==
    IF k \in {Unicode("W"), Unicode("w"), RawKey("ArrowUp")} THEN PaddleUp(p)
    ELSE IF k \in {Unicode("S"), Unicode("s")} THEN PaddleDown(p, h)
    ELSE p

\* main.rs:262-284  the left paddle after a key while the match is ongoing
KeyPaddleLeft(k, p, h) ==
    IF k \in {Unicode("W"), Unicode("w")} THEN PaddleUp(p)
    ELSE IF k \in {Unicode("S"), Unicode("s")} THEN PaddleDown(p, h)
    ELSE p

\* Faulty variant of KeyPaddleRight: every raw key but ArrowUp moves down.
KeyPaddleRight_Default(k, p, h) ==
    IF k.tag = "Unicode" THEN p
    ELSE IF k = RawKey("ArrowUp") THEN PaddleUp(p)
    ELSE PaddleDown(p, h)

\* main.rs:262-284  the right paddle after a key while the match is ongoing
KeyPaddleRight(k, p, h) ==
    IF k \in {Unicode("W"), Unicode("w"), Unicode("S"), Unicode("s")} THEN p
    ELSE IF k = RawKey("ArrowUp") THEN PaddleUp(p)
    ELSE IF k = RawKey("ArrowDown") THEN PaddleDown(p, h)
    ELSE p

\* Faulty variant of IsRestart: the restart key matches in either case.
IsRestart_AnyCase(k) == k \in {Unicode("r"), Unicode("R")}

\* main.rs:245  the restart key
IsRestart(k) == k = Unicode("r")

\* Faulty variant of KeyReset: the paddles are left where the match ended.
KeyReset_KeepPaddles(k) ==
    /\ GAME_STATE = 1
    /\ IsRestart(k)
    /\ LEFT_SCORE' = 0
    /\ RIGHT_SCORE' = 0
    /\ BALL_X' = width \div 2
    /\ BALL_Y' = height \div 2
    /\ BALL_SPEED_X' = SPEED_X
    /\ BALL_SPEED_Y' = SPEED_Y
    /\ GAME_STATE' = 0
    /\ message' = "none"
    /\ DrawPongGame(PADDLE_LEFT, PADDLE_RIGHT)
    /\ UNCHANGED <<PADDLE_LEFT, PADDLE_RIGHT, lastScorer>>

\* main.rs:245-258  restart: reset the game, clear the screen, run start()
KeyReset(k) ==
    /\ GAME_STATE = 1
    /\ IsRestart(k)
    /\ LEFT_SCORE' = 0
    /\ RIGHT_SCORE' = 0
    /\ BALL_X' = width \div 2
    /\ BALL_Y' = height \div 2
    /\ BALL_SPEED_X' = SPEED_X
    /\ BALL_SPEED_Y' = SPEED_Y
    /\ PADDLE_LEFT' = RESET_PADDLE_LEFT
    /\ PADDLE_RIGHT' = RESET_PADDLE_RIGHT
    /\ GAME_STATE' = 0
    /\ message' = "none"
    /\ UNCHANGED lastScorer
    /\ DrawPongGame(PADDLE_LEFT', PADDLE_RIGHT')

\* main.rs:244,259  any other key while the match has ended
KeyIgnored(k) ==
    /\ GAME_STATE = 1
    /\ ~IsRestart(k)
    /\ UNCHANGED <<game, message, lastScorer, previous_paddle_left_pos,
                   previous_paddle_right_pos>>

\* main.rs:262-287  a key while the match is ongoing, with its redraw
KeyPlaying(k) ==
    /\ GAME_STATE # 1
    /\ PADDLE_LEFT' = KeyPaddleLeft(k, PADDLE_LEFT, height)
    /\ PADDLE_RIGHT' = KeyPaddleRight(k, PADDLE_RIGHT, height)
    /\ DrawPongGame(PADDLE_LEFT', PADDLE_RIGHT')
    /\ UNCHANGED <<BALL_X, BALL_Y, BALL_SPEED_X, BALL_SPEED_Y, LEFT_SCORE,
                   RIGHT_SCORE, GAME_STATE, message, lastScorer>>

\* main.rs:244-287  what key() writes: nothing when the match has ended,
\* unless the key restarts it; else the paddles
KeyOps(k) ==
    IF GAME_STATE = 1
    THEN IF IsRestart(k)
         THEN <<ClearOp>> \o StartOps(PADDLE_LEFT', PADDLE_RIGHT')
         ELSE <<>>
    ELSE PongGameOps(PADDLE_LEFT', PADDLE_RIGHT')

Key(k) ==
    /\ started
    /\ ~halted
    /\ keysLeft > 0
    /\ keysLeft' = keysLeft - 1
    /\ \/ KeyReset(k)
       \/ KeyIgnored(k)
       \/ KeyPlaying(k)
    /\ Draw(KeyOps(k))
    /\ event' = KeyEvent(k, GAME_STATE)
    /\ UNCHANGED <<width, height, rows, started, heap, direct>>

Next ==
    \/ Start
    \/ Tick
    \/ \E k \in Keys : Key(k)

Spec == Init /\ [][Next]_vars

(***************************************************************************)
(* The arena allocator of kernel/src/allocator.rs                           *)
(***************************************************************************)
\* Everything but the allocator, the panic flag and the event record.
notHeap == <<width, height, rows, game, previous_paddle_left_pos,
             previous_paddle_right_pos, message, lastScorer, started,
             keysLeft, drawn, pixel_format, direct>>

\* allocator.rs:32-36  init_heap(offset), called once while booting
InitHeap(offset) ==
    /\ heapBase = -1
    /\ ~halted
    /\ HEAP_START' = offset
    /\ heapBase' = offset
    /\ event' = [kind |-> "init_heap", offset |-> offset]
    /\ UNCHANGED <<notHeap, halted, blocks, serialLog>>

\* Faulty variant of Bump: the pointer advances by half the size.
Bump_Half(heap_start, size) == heap_start + size \div 2

\* allocator.rs:18  the bump pointer after a block of the size
Bump(heap_start, size) == heap_start + size

\* allocator.rs:19  the out-of-memory test
OutOfMemory(new_heap_start, heap_start) ==
    new_heap_start > heap_start + HEAP_SIZE

\* allocator.rs:15-25  alloc(layout): panics when out of memory, else bumps
\* HEAP_START and returns its old value
Alloc(size, align) ==
    LET bump_ptr == HEAP_START
        new_heap_start == Bump(HEAP_START, size)
    IN  /\ heapBase # -1
        /\ ~halted
        /\ Len(blocks) < MaxAllocs
        /\ IF OutOfMemory(new_heap_start, HEAP_START)
           THEN /\ halted' = TRUE
                /\ event' = [kind |-> "alloc", size |-> size, align |-> align,
                             ptr |-> -1]
                /\ UNCHANGED <<HEAP_START, blocks>>
           ELSE /\ HEAP_START' = new_heap_start
                /\ blocks' = Append(blocks, [ptr |-> bump_ptr, size |-> size,
                                             align |-> align])
                /\ event' = [kind |-> "alloc", size |-> size, align |-> align,
                             ptr |-> bump_ptr]
                /\ UNCHANGED halted
        /\ UNCHANGED <<notHeap, heapBase, serialLog>>

\* A dealloc that gives the block back by moving the bump pointer to it.
Dealloc_Reclaim(ptr) ==
    /\ heapBase # -1
    /\ ~halted
    /\ HEAP_START' = ptr
    /\ serialLog' = Append(serialLog, ptr)
    /\ event' = [kind |-> "dealloc", ptr |-> ptr]
    /\ UNCHANGED <<notHeap, halted, heapBase, blocks>>

\* allocator.rs:27-29  dealloc(ptr, layout): writes one line to serial()
Dealloc(ptr) ==
    /\ heapBase # -1
    /\ ~halted
    /\ serialLog' = Append(serialLog, ptr)
    /\ event' = [kind |-> "dealloc", ptr |-> ptr]
    /\ UNCHANGED <<notHeap, halted, HEAP_START, heapBase, blocks>>

\* The blocks that have been allocated and not yet deallocated.
Live == {i \in 1..Len(blocks) :
            \A j \in 1..Len(serialLog) : serialLog[j] # blocks[i].ptr}

NextAlloc ==
    \/ \E offset \in HeapOffsets : InitHeap(offset)
    \/ \E size \in LayoutSizes, align \in LayoutAligns : Alloc(size, align)
    \/ \E i \in Live : Dealloc(blocks[i].ptr)

SpecAlloc == Init /\ [][NextAlloc]_vars

(***************************************************************************)
(* draw_pixel called directly, on every pixel format                        *)
(***************************************************************************)
\* Faulty variant of Color: the channels are stored as r, g, b whatever the
\* format is.
Color_RgbOnly(format, r, g, b) == <<r, g, b, 0>>

\* screen.rs:133-135  the four bytes of a pixel
Color(format, r, g, b) ==
    IF format = "Rgb" THEN <<r, g, b, 0>> ELSE <<b, g, r, 0>>

\* screen.rs:132,143-146  the slice index: the pixel lies past the buffer
OutOfBuffer(x, y) == y * width + x >= rows * width

\* Everything draw_pixel leaves alone.
notPixel == <<width, height, rows, game, previous_paddle_left_pos,
              previous_paddle_right_pos, message, lastScorer, started,
              keysLeft, drawn, heap, bytes_per_pixel>>

\* screen.rs:131-148  draw_pixel(x, y, r, g, b).  It may be called after a
\* panic as well, by the code that reports the panic.
DrawPixel(x, y, r, g, b) ==
    /\ drawsLeft > 0
    /\ drawsLeft' = drawsLeft - 1
    /\ IF Unsupported(pixel_format)
       THEN /\ pixel_format' = "Rgb"
            /\ halted' = TRUE
            /\ written' = <<>>
       ELSE IF OutOfBuffer(x, y)
       THEN /\ halted' = TRUE
            /\ written' = <<>>
            /\ UNCHANGED pixel_format
       ELSE /\ written' = SubSeq(Color(pixel_format, r, g, b), 1,
                                 bytes_per_pixel)
            /\ UNCHANGED <<pixel_format, halted>>
    /\ event' = [kind |-> "draw_pixel", format |-> pixel_format, x |-> x,
                 y |-> y, r |-> r, g |-> g, b |-> b]
    /\ UNCHANGED notPixel

\* The renderer after screen::init, on any boot descriptor.
InitPixel ==
    /\ width = 640 /\ height = 480 /\ rows = 480
    /\ BALL_X = INIT_BALL_X
    /\ BALL_Y = INIT_BALL_Y
    /\ BALL_SPEED_X = SPEED_X
    /\ BALL_SPEED_Y = SPEED_Y
    /\ PADDLE_LEFT = INIT_PADDLE_LEFT
    /\ PADDLE_RIGHT = INIT_PADDLE_RIGHT
    /\ LEFT_SCORE = 0
    /\ RIGHT_SCORE = 0
    /\ GAME_STATE = 0
    /\ previous_paddle_left_pos = 0
    /\ previous_paddle_right_pos = 0
    /\ message = "none"
    /\ lastScorer = "none"
    /\ started = FALSE
    /\ halted = FALSE
    /\ event = [kind |-> "boot", phase |-> 0]
    /\ keysLeft = MaxKeys
    /\ HEAP_START = 0
    /\ heapBase = -1
    /\ blocks = <<>>
    /\ serialLog = <<>>
    /\ drawn = <<>>
    /\ pixel_format \in PixelFormats
    /\ bytes_per_pixel \in PixelSizes
    /\ written = <<>>
    /\ drawsLeft = MaxDraws

NextPixel ==
    \E x \in {0, width - 1}, y \in {0, rows - 1, rows}, r, g, b \in Channels :
        DrawPixel(x, y, r, g, b)

SpecPixel == InitPixel /\ [][NextPixel]_vars

(***************************************************************************)
(* The mid-game states of the scoring and anti-tunneling scenarios, as the  *)
(* statics tick() and key() find them, on a 640 x 480 framebuffer.          *)
(***************************************************************************)
\* Paddle positions the scenarios start from.
ScenarioPaddles == {25, 100, 200, 400}

\* Ball near the left edge, moving left.
ScenarioLeftEdge ==
    /\ BALL_X = 2
    /\ BALL_Y = 100
    /\ BALL_SPEED_X = -5
    /\ BALL_SPEED_Y \in {SPEED_Y, -SPEED_Y}
    /\ PADDLE_LEFT \in ScenarioPaddles
    /\ PADDLE_RIGHT = 100

\* Fast ball in front of the right paddle, inside the paddle's band.
ScenarioFastBall ==
    /\ BALL_X = 615
    /\ BALL_SPEED_X = 20
    /\ BALL_SPEED_Y \in {SPEED_Y, -SPEED_Y}
    /\ PADDLE_LEFT = 100
    /\ PADDLE_RIGHT \in ScenarioPaddles
    /\ BALL_Y = PADDLE_RIGHT + 20

InitScenario ==
    /\ width = 640
    /\ height = 480
    /\ rows = 480
    /\ ScenarioLeftEdge \/ ScenarioFastBall
    /\ LEFT_SCORE = 0
    /\ RIGHT_SCORE = 0
    /\ GAME_STATE = 0
    /\ previous_paddle_left_pos = PADDLE_LEFT
    /\ previous_paddle_right_pos = PADDLE_RIGHT
    /\ message = "none"
    /\ lastScorer = "none"
    /\ started = TRUE
    /\ halted = FALSE
    /\ event = [kind |-> "start", phase |-> 0]
    /\ keysLeft = MaxKeys
    /\ HEAP_START = 0
    /\ heapBase = -1
    /\ blocks = <<>>
    /\ serialLog = <<>>
    /\ drawn = <<>>
    /\ pixel_format = "Rgb"
    /\ bytes_per_pixel = 4
    /\ written = <<>>
    /\ drawsLeft = MaxDraws

NextScenario ==
    \/ Tick
    \/ \E k \in Keys : Key(k)

SpecScenario == InitScenario /\ [][NextScenario]_vars

(***************************************************************************)
(* Properties                                                              *)
(***************************************************************************)
Playing == GAME_STATE = 0
Finished == GAME_STATE = 1

\* The handler that ran last, and the phase it found.
TickRanPlaying == event = TickEvent(0)
KeyRan == event.kind = "key"
RestartRan == event = KeyEvent(Unicode("r"), 1)

OnScreen(p) == p >= 0 /\ p + PADDLE_HEIGHT <= height

\* C1: after every timer tick executed while the phase is Playing, the ball
\* position satisfies 0 <= ballX < width and 0 <= ballY < height.
C1_BallInFrame ==
    TickRanPlaying =>
        /\ 0 <= BALL_X /\ BALL_X < width
        /\ 0 <= BALL_Y /\ BALL_Y < height

\* A Playing tick has just clamped the ball at the top edge.
C1_Witness ==
    /\ TickRanPlaying
    /\ BALL_Y = 0
    /\ BALL_SPEED_Y = SPEED_Y
    /\ C1_BallInFrame

\* C2: after any keyboard event, each paddle's y-position is non-negative and
\* its y-position plus PADDLE_HEIGHT does not exceed the screen height.
C2_PaddlesOnScreen ==
    KeyRan => OnScreen(PADDLE_LEFT) /\ OnScreen(PADDLE_RIGHT)

\* C3: a score changes only by a Playing tick whose projected ball leaves the
\* left edge (rightScore + 1, leftScore unchanged), by a Playing tick whose
\* projected ball leaves the right edge (leftScore + 1, rightScore
\* unchanged), or by a restart (both 0); every other tick and every other key
\* leaves both scores unchanged.
C3_ScoreSteps ==
    [][LET nx == BALL_X + BALL_SPEED_X
           left == Playing /\ nx < 0
           right == Playing /\ nx >= 0 /\ nx + BALL_SIZE > width
       IN  /\ (event' = TickEvent(GAME_STATE) /\ left) =>
                 RIGHT_SCORE' = RIGHT_SCORE + 1 /\ LEFT_SCORE' = LEFT_SCORE
           /\ (event' = TickEvent(GAME_STATE) /\ right) =>
                 LEFT_SCORE' = LEFT_SCORE + 1 /\ RIGHT_SCORE' = RIGHT_SCORE
           /\ (event' = TickEvent(GAME_STATE) /\ ~left /\ ~right) =>
                 UNCHANGED <<LEFT_SCORE, RIGHT_SCORE>>
           /\ (event'.kind = "key" /\ ~RestartRan') =>
                 UNCHANGED <<LEFT_SCORE, RIGHT_SCORE>>
           /\ RestartRan' => LEFT_SCORE' = 0 /\ RIGHT_SCORE' = 0
           /\ event'.kind \in {"tick", "key", "start"}]_vars

\* Both sides have scored once; the last tick was a scoring tick.
C3_Witness ==
    /\ TickRanPlaying
    /\ LEFT_SCORE = 1
    /\ RIGHT_SCORE = 1
    /\ BALL_X = width \div 2
    /\ BALL_Y = height \div 2

\* C4: the phase is Finished if and only if one of the scores has reached the
\* win threshold 3.
C4_FinishedIffWon ==
    Finished <=> (LEFT_SCORE >= WIN_SCORE \/ RIGHT_SCORE >= WIN_SCORE)

\* The tick that raised a score to 3 has just run: it found Playing and left
\* Finished.
C4_Witness ==
    /\ TickRanPlaying
    /\ Finished
    /\ RIGHT_SCORE = WIN_SCORE

\* C5: whenever the phase is Finished, exactly one score equals 3 and the
\* other is below 3, and the winner the tick handler announces is the side
\* whose scoring event ended the match.
C5_WinnerIsScorer ==
    Finished =>
        /\ \/ LEFT_SCORE = WIN_SCORE /\ RIGHT_SCORE < WIN_SCORE
           \/ RIGHT_SCORE = WIN_SCORE /\ LEFT_SCORE < WIN_SCORE
        /\ (LEFT_SCORE >= WIN_SCORE) <=> (lastScorer = "Left")
        /\ message \in {"none", lastScorer}

\* The right player has won and a tick has written the win message.
C5_Witness ==
    /\ Finished
    /\ lastScorer = "Right"
    /\ message = "Right"

MovementKeys == {Unicode("w"), Unicode("W"), Unicode("s"), Unicode("S"),
                 RawKey("ArrowUp"), RawKey("ArrowDown")}

\* C6: once the phase is Finished it stays Finished, with ball position, ball
\* velocity, paddles and scores unchanged, under every tick and every key but
\* the restart key; the restart key returns the phase to Playing with both
\* scores 0.
C6_FinishedFrozen ==
    [][Finished =>
          \/ /\ RestartRan'
             /\ Playing'
             /\ LEFT_SCORE' = 0
             /\ RIGHT_SCORE' = 0
          \/ /\ ~RestartRan'
             /\ UNCHANGED game]_vars

\* A match has ended and the restart key, the only key pressed so far, has
\* returned the phase to Playing; the handler ran to its end.
C6_Witness ==
    /\ RestartRan
    /\ ~halted
    /\ Playing
    /\ keysLeft = MaxKeys - 1
    /\ lastScorer = "Left"
    /\ LEFT_SCORE = 0

\* C7: the restart key received while Playing changes no game state; a
\* movement key received while Finished changes no game state; any other key
\* changes no game state in either phase.
C7_IgnoredKeys ==
    [][/\ event' = KeyEvent(Unicode("r"), 0) => UNCHANGED game
       /\ (\E k \in MovementKeys : event' = KeyEvent(k, 1)) => UNCHANGED game
       /\ (/\ event'.kind = "key"
           /\ event'.key \notin MovementKeys \cup {Unicode("r")}) =>
              UNCHANGED game]_vars

\* The restart key has been handled while Playing, in the middle of a match.
C7_Witness ==
    /\ event = KeyEvent(Unicode("r"), 0)
    /\ Playing
    /\ LEFT_SCORE = 1
    /\ BALL_X # width \div 2

\* C8: in a Playing tick that does not score, a paddle hit negates velX, a
\* top or bottom clamp negates velY, and nothing else changes the velocity;
\* |velX| and |velY| keep their canonical magnitudes in every state.
C8_ElasticSteps ==
    [][LET nx == BALL_X + BALL_SPEED_X
           ny == BALL_Y + BALL_SPEED_Y
           hit == \/ HitRight(nx, ny, BALL_SPEED_X, PADDLE_RIGHT, width)
                  \/ HitLeft(nx, ny, BALL_SPEED_X, PADDLE_LEFT)
           clamp == ny < 0 \/ ny + BALL_SIZE > height
       IN  (/\ event' = TickEvent(0)
            /\ Playing
            /\ nx >= 0
            /\ nx + BALL_SIZE <= width) =>
              /\ BALL_SPEED_X' = IF hit THEN -BALL_SPEED_X ELSE BALL_SPEED_X
              /\ BALL_SPEED_Y' = IF clamp THEN -BALL_SPEED_Y ELSE BALL_SPEED_Y]_vars

C8_Magnitudes ==
    /\ BALL_SPEED_X \in {SPEED_X, -SPEED_X}
    /\ BALL_SPEED_Y \in {SPEED_Y, -SPEED_Y}

C8_Elastic == C8_ElasticSteps /\ []C8_Magnitudes

\* The ball is inside the left paddle's collision zone and moves right: the
\* left paddle has turned it around.
C8_Witness ==
    /\ TickRanPlaying
    /\ BALL_SPEED_X = SPEED_X
    /\ BALL_X <= PADDLE_WIDTH + LOOKAHEAD
    /\ BALL_X > PADDLE_WIDTH + LOOKAHEAD - SPEED_X

\* The game state a restart produces on a framebuffer of the given size.
ResetGame(w, h) ==
    <<w \div 2, h \div 2, SPEED_X, SPEED_Y, RESET_PADDLE_LEFT,
      RESET_PADDLE_RIGHT, 0, 0, 0>>

\* C9: reset is trajectory-independent: the game state right after the
\* restart key is handled in Finished is the same whatever ticks and keys led
\* to that Finished state and whichever side won: it depends on the
\* framebuffer size alone.
C9_ResetCanonical ==
    RestartRan => game = ResetGame(width, height)

\* A restart after a match the right player won, with a paddle moved; the
\* handler ran to its end.
C9_Witness ==
    /\ RestartRan
    /\ ~halted
    /\ lastScorer = "Right"
    /\ previous_paddle_right_pos = RESET_PADDLE_RIGHT
    /\ keysLeft <= MaxKeys - 2

\* The game state the program is constructed with.
StartupGame ==
    <<INIT_BALL_X, INIT_BALL_Y, SPEED_X, SPEED_Y, INIT_PADDLE_LEFT,
      INIT_PADDLE_RIGHT, 0, 0, 0>>

\* C10: the game state produced by a restart equals the state the game is
\* constructed with at startup: every field after reset has the value it
\* had before the first tick.
C10_ResetIsStartup ==
    RestartRan => game = StartupGame

\* The ball has respawned at the screen center with the canonical speed.
Respawned ==
    /\ BALL_X = width \div 2
    /\ BALL_Y = height \div 2
    /\ BALL_SPEED_X \in {SPEED_X, -SPEED_X}
    /\ BALL_SPEED_Y \in {SPEED_Y, -SPEED_Y}

\* C11 as claimed: after a scoring event the ball respawns at the screen
\* center with canonical speed, its horizontal velocity pointing toward the
\* side that conceded: velX < 0 when the ball left through the left edge,
\* velX > 0 when it left through the right edge.
C11_TowardConceder ==
    [][LET nx == BALL_X + BALL_SPEED_X
       IN  /\ (event' = TickEvent(0) /\ Playing /\ nx < 0) =>
                 Respawned' /\ BALL_SPEED_X' < 0
           /\ (event' = TickEvent(0) /\ Playing /\ nx >= 0
                  /\ nx + BALL_SIZE > width) =>
                 Respawned' /\ BALL_SPEED_X' > 0]_vars

\* C11 as amended: after a scoring event the ball respawns at the screen
\* center with canonical speed, its velocity pointing toward the side that
\* scored: velX > 0 and velY > 0 when the ball left through the left edge,
\* velX < 0 and velY < 0 when it left through the right edge.
C11_TowardScorer ==
    [][LET nx == BALL_X + BALL_SPEED_X
       IN  /\ (event' = TickEvent(0) /\ Playing /\ nx < 0) =>
                 Respawned' /\ BALL_SPEED_X' > 0 /\ BALL_SPEED_Y' > 0
           /\ (event' = TickEvent(0) /\ Playing /\ nx >= 0
                  /\ nx + BALL_SIZE > width) =>
                 Respawned' /\ BALL_SPEED_X' < 0 /\ BALL_SPEED_Y' < 0]_vars

\* The ball left through the left edge in the last tick and has respawned
\* moving right.
C11_Witness ==
    /\ TickRanPlaying
    /\ lastScorer = "Right"
    /\ RIGHT_SCORE = 1
    /\ Respawned
    /\ BALL_SPEED_X = SPEED_X

\* The state the left-edge scoring scenario starts from.
C12_Scenario ==
    /\ width = 640
    /\ height = 480
    /\ Playing
    /\ BALL_X = 2
    /\ BALL_Y = 100
    /\ BALL_SPEED_X = -5
    /\ RIGHT_SCORE = 0
    /\ ~(PADDLE_LEFT <= 100 /\ 100 < PADDLE_LEFT + PADDLE_HEIGHT)

\* C12: with width 640, height 480, phase Playing, ball at x=2, y=100 with
\* velX=-5 and the left paddle not covering y=100, one timer tick raises
\* rightScore from 0 to 1, leaves leftScore unchanged, and places the ball at
\* (320,240) with velocity velX > 0, velY > 0 of canonical magnitude.
C12_LeftEdgeScore ==
    [][(C12_Scenario /\ event' = TickEvent(0)) =>
          /\ RIGHT_SCORE' = 1
          /\ LEFT_SCORE' = LEFT_SCORE
          /\ BALL_X' = 320
          /\ BALL_Y' = 240
          /\ BALL_SPEED_X' = 5
          /\ BALL_SPEED_Y' = 3]_vars

\* The scenario's tick has run, before any key: the right player has its
\* first point and the ball is back at the center.
C12_Witness ==
    /\ TickRanPlaying
    /\ keysLeft = MaxKeys
    /\ RIGHT_SCORE = 1
    /\ LEFT_SCORE = 0
    /\ BALL_X = 320
    /\ BALL_Y = 240
    /\ PADDLE_LEFT # 100

\* The state the anti-tunneling scenario starts from: the right paddle
\* occupies x = 620..630 and the ball is inside its band.
C13_Scenario ==
    /\ width = 640
    /\ Playing
    /\ BALL_X = 615
    /\ BALL_SPEED_X = 20
    /\ PADDLE_RIGHT <= BALL_Y
    /\ BALL_Y + BALL_SIZE <= PADDLE_RIGHT + PADDLE_HEIGHT

HeapSeeded == heapBase # -1

\* C14: on the arena seeded at heapBase with HEAP_SIZE bytes the bump
\* pointer stays within [heapBase, heapBase + HEAP_SIZE] and every block
\* alloc has returned lies inside that region.
C14_InArena ==
    HeapSeeded =>
        /\ heapBase <= HEAP_START
        /\ HEAP_START <= heapBase + HEAP_SIZE
        /\ \A i \in 1..Len(blocks) :
              /\ heapBase <= blocks[i].ptr
              /\ blocks[i].ptr + blocks[i].size <= heapBase + HEAP_SIZE

\* C15: the pointer of every block alloc has returned is a multiple of the
\* alignment the request asked for.
C15_Aligned ==
    \A i \in 1..Len(blocks) : blocks[i].ptr % blocks[i].align = 0

\* C16: dealloc never panics, leaves the bump pointer and the blocks alone
\* and appends exactly one record naming its pointer to the serial log; no
\* other operation writes a record; no step lowers the bump pointer, and a
\* block alloc returns lies above every block returned before.
C16_MonotonicArena ==
    [][ /\ HEAP_START' >= HEAP_START
        /\ event'.kind = "dealloc" =>
              /\ ~halted'
              /\ HEAP_START' = HEAP_START
              /\ blocks' = blocks
              /\ serialLog' = Append(serialLog, event'.ptr)
        /\ event'.kind # "dealloc" => serialLog' = serialLog
        /\ (event'.kind = "alloc" /\ event'.ptr # -1) =>
              \A i \in 1..Len(blocks) :
                  blocks[i].ptr + blocks[i].size <= event'.ptr ]_vars

\* A block has been allocated after a block was deallocated.
C16_Witness ==
    /\ event.kind = "alloc"
    /\ event.ptr # -1
    /\ Len(serialLog) >= 1

(***************************************************************************)
(* The framebuffer writes of the handlers                                   *)
(***************************************************************************)
\* The rectangle lies inside [0, width) x [0, height).
InFrame(o) ==
    /\ 0 <= o.x
    /\ o.x + o.w <= width
    /\ 0 <= o.y
    /\ o.y + o.h <= height

TickRan == event.kind = "tick"

\* C17: tick() always runs to completion: it never panics, every rectangle
\* it erases or paints (ball, score digit, paddles, mid line, message) lies
\* inside the frame, and the ball position it stores is never negative.
C17_TickTotal ==
    TickRan =>
        /\ ~halted
        /\ \A i \in 1..Len(drawn) : InFrame(drawn[i])
        /\ BALL_X >= 0
        /\ BALL_Y >= 0

\* The tick that scores the winning point: it erases the ball, repaints the
\* winner's digit as 3 and paints the ball and the mid line.
C17_Witness ==
    /\ TickRan
    /\ event.phase = 0
    /\ GAME_STATE = 1
    /\ \E i \in 1..Len(drawn) : drawn[i].what = "digit" /\ drawn[i].n = 3
    /\ \E i \in 1..Len(drawn) : drawn[i].what = "ball" /\ drawn[i].op = "erase"

\* The last handler left a whole rectangle of the thing on the screen: it
\* painted it inside the frame and cleared nothing afterwards.
Painted(what, n, x, y) ==
    \E i \in 1..Len(drawn) :
        /\ drawn[i].op = "paint"
        /\ drawn[i].what = what
        /\ drawn[i].n = n
        /\ drawn[i].x = x
        /\ drawn[i].y = y
        /\ InFrame(drawn[i])
        /\ \A j \in (i + 1)..Len(drawn) : drawn[j].op # "clear"

\* C18: the restart handler clears the screen and then leaves on it both
\* paddles, whole, at their reset positions, the mid line and a zero digit
\* for each score.
C18_SceneryRepainted ==
    RestartRan =>
        /\ ~halted
        /\ \E i \in 1..Len(drawn) : drawn[i].op = "clear"
        /\ Painted("paddle_left", 0, PaddleLeftX, PADDLE_LEFT)
        /\ Painted("paddle_right", 0, PaddleRightX, PADDLE_RIGHT)
        /\ Painted("mid_line", 0, MidLineOp.x, MidLineOp.y)
        /\ Painted("digit", 0, LeftScoreX, SCORE_Y)
        /\ Painted("digit", 0, RightScoreX, SCORE_Y)

\* The writes of one paddle among those of a handler.
PaddleWrites(ops, what) == SelectSeq(ops, LAMBDA o : o.what = what)

\* What the diffing redraw of one paddle writes.
DirtyRegion(what, x, pos, prev) ==
    IF pos = prev THEN <<>>
    ELSE <<ErasePad(what, x, prev), PaintPad(what, x, pos)>>

\* C19: in a tick or key handler that runs while the match is ongoing, each
\* paddle is not written when it is where it was last drawn, and is else
\* erased at the remembered position and painted at the current one; after
\* the handler the remembered position of each paddle is its current one.
C19_DirtyRegions ==
    [][ (event'.kind \in {"tick", "key"} /\ event'.phase = 0) =>
          /\ PaddleWrites(drawn', "paddle_left") =
                 DirtyRegion("paddle_left", PaddleLeftX, PADDLE_LEFT',
                             previous_paddle_left_pos)
          /\ PaddleWrites(drawn', "paddle_right") =
                 DirtyRegion("paddle_right", PaddleRightX, PADDLE_RIGHT',
                             previous_paddle_right_pos)
          /\ previous_paddle_left_pos' = PADDLE_LEFT'
          /\ previous_paddle_right_pos' = PADDLE_RIGHT' ]_vars

\* C20: while the match is ongoing a movement key moves its own paddle by
\* -25, 0 or +25 and changes neither the other paddle, the ball, the ball's
\* velocity, the scores nor the phase.
C20_OwnPaddleOnly ==
    [][ (event'.kind = "key" /\ event'.phase = 0
         /\ event'.key \in MovementKeys) =>
          LET dl == PADDLE_LEFT' - PADDLE_LEFT
              dr == PADDLE_RIGHT' - PADDLE_RIGHT
              steps == {-PADDLE_STEP, 0, PADDLE_STEP}
          IN  /\ IF event'.key.tag = "Unicode"
                 THEN dl \in steps /\ dr = 0
                 ELSE dr \in steps /\ dl = 0
              /\ UNCHANGED <<BALL_X, BALL_Y, BALL_SPEED_X, BALL_SPEED_Y,
                             LEFT_SCORE, RIGHT_SCORE, GAME_STATE>> ]_vars

\* ArrowUp has just moved the right paddle up after s moved the left one
\* down.
C20_Witness ==
    /\ event = KeyEvent(RawKey("ArrowUp"), 0)
    /\ PADDLE_RIGHT = INIT_PADDLE_RIGHT - PADDLE_STEP
    /\ PADDLE_LEFT = INIT_PADDLE_LEFT + PADDLE_STEP

(***************************************************************************)
(* draw_pixel                                                               *)
(***************************************************************************)
\* C21: draw_pixel on a format that is neither Rgb nor Bgr panics without
\* storing a byte, and has set the stored format to Rgb when it does, so a
\* draw_pixel made after the panic stores bytes again; on Rgb it stores the
\* channels in the order r, g, b and on Bgr in the order b, g, r.
C21_DrawPixel ==
    [][ event'.kind = "draw_pixel" =>
          LET e == event'
              bytes == IF pixel_format = "Rgb" THEN <<e.r, e.g, e.b, 0>>
                       ELSE <<e.b, e.g, e.r, 0>>
          IN  /\ pixel_format \notin {"Rgb", "Bgr"} =>
                    /\ halted'
                    /\ written' = <<>>
                    /\ pixel_format' = "Rgb"
              /\ (pixel_format \in {"Rgb", "Bgr"} /\ ~OutOfBuffer(e.x, e.y)) =>
                    /\ written' = SubSeq(bytes, 1, bytes_per_pixel)
                    /\ pixel_format' = pixel_format
                    /\ halted' = halted
              /\ halted => pixel_format \in {"Rgb", "Bgr"} ]_vars

\* A pixel has been stored after the unsupported format made draw_pixel
\* panic: the second call found Rgb.
C21_Witness ==
    /\ event.kind = "draw_pixel"
    /\ halted
    /\ event.format = "Rgb"
    /\ bytes_per_pixel = 4
    /\ written = <<128, 0, 255, 0>>

(***************************************************************************)
(* The whole ball, and the blocks of the arena                              *)
(***************************************************************************)
\* C22: after every tick the whole square of the ball is on the screen,
\* BALL_X + BALL_SIZE <= width and BALL_Y + BALL_SIZE <= height, and whenever
\* a tick can run the rectangle its clear_ball erases is inside the frame
\* and inside the buffer.
C22_WholeBall ==
    /\ TickRan =>
          /\ BALL_X + BALL_SIZE <= width
          /\ BALL_Y + BALL_SIZE <= height
    /\ (started /\ ~halted) =>
          /\ InFrame(EraseBall(BALL_X, BALL_Y))
          /\ ~Panics(EraseBall(BALL_X, BALL_Y))

\* A tick has just clamped the ball against the bottom edge.
C22_Witness ==
    /\ TickRan
    /\ GAME_STATE = 0
    /\ BALL_Y + BALL_SIZE = height
    /\ BALL_SPEED_Y = -SPEED_Y

\* C23: the blocks alloc has returned are pairwise disjoint, and each one
\* starts at or after the end of the one returned before it, whatever has
\* been deallocated in between.
C23_Disjoint ==
    /\ \A i \in 1..Len(blocks), j \in 1..Len(blocks) :
          i < j => blocks[i].ptr + blocks[i].size <= blocks[j].ptr
    /\ \A i \in 1..Len(blocks), j \in 1..Len(blocks) :
          i # j =>
             \/ blocks[i].ptr + blocks[i].size <= blocks[j].ptr
             \/ blocks[j].ptr + blocks[j].size <= blocks[i].ptr

\* Three blocks have been returned, the last right after the second, and
\* the first dealloc was that of the first block.
C23_Witness ==
    /\ Len(blocks) = MaxAllocs
    /\ Len(serialLog) >= 1
    /\ serialLog[1] = blocks[1].ptr
    /\ blocks[3].ptr = blocks[2].ptr + blocks[2].size

====
